---------------------------- MODULE Spec2Model ----------------------------
(***************************************************************************)
(* A model of zoomexport.py: the poll-report parser and aggregator, the    *)
(* corpus loaders and the stacked-bar renderer.                            *)
(*                                                                         *)
(* Text is modelled by TLA+ strings where only equality matters, and by    *)
(* sequences of character codes where length, slicing or lexical order     *)
(* matter.  A csv row is the sequence of its fields, as csv.reader yields  *)
(* it.  A float quotient a / b is kept as the exact fraction               *)
(* [num |-> a, den |-> b]; sums of such quotients are exact sums.          *)
(***************************************************************************)
EXTENDS Integers, Sequences, FiniteSets, TLC

VARIABLES
    file,       \* the poll-report file handed to the two single-file readers
    pcR,        \* read_poll_report: "loop" | "frame" | "returned" | "raised"
    ri,         \* read_poll_report: number of data rows consumed
    poll,       \* read_poll_report: the list `poll` of record dicts
    df,         \* read_poll_report: the returned frame (rows)
    pcC,        \* read_poll_report_counts: "wait" | "loop" | "frame" | "returned" | "raised"
    ci,         \* read_poll_report_counts: number of data rows consumed
    cpoll,      \* read_poll_report_counts: the dict `poll` (question -> answer -> count)
    N,          \* read_poll_report_counts: the dict `N` (question -> count)
    counts,     \* read_poll_report_counts: the returned frame (rows)
    folder,     \* corpus loaders: the names of the files in the directory
    loader,     \* corpus loaders: "idle" | "perf" | "polls" | "counts"
    listing,    \* corpus loaders: the list glob.glob returned (perfs / polls)
    li,         \* corpus loaders: number of listed files appended so far
    data,       \* corpus loaders: the frame `data` being built
    loads,      \* corpus loaders: the outcomes of the finished calls, in call order
    args,       \* plot_question_stacked_bokeh: polldata, question, prop, answer_sort
    pcPlot,     \* plot_question_stacked_bokeh: the statement to execute next
    question,   \* plot_question_stacked_bokeh: the local `question`
    a,          \* plot_question_stacked_bokeh: the local `a`
    pivot,      \* plot_question_stacked_bokeh: the local `data`, pivoted and filled
    colors,     \* plot_question_stacked_bokeh: the local `colors`
    calls,      \* plot_question_stacked_bokeh: the bokeh calls made so far
    err         \* plot_question_stacked_bokeh: the exception raised, if any

pollVars == <<file, pcR, ri, poll, df, pcC, ci, cpoll, N, counts>>
corpusVars == <<folder, loader, listing, li, data, loads>>
plotVars == <<args, pcPlot, question, a, pivot, colors, calls, err>>
vars == <<pollVars, corpusVars, plotVars>>

-----------------------------------------------------------------------------
(* Bounds of the model *)

MaxRows == 3        \* data rows per poll-report file
MaxLoads == 2       \* calls of corpus loaders on one directory
MaxQuestionLen == 62 \* characters of the question text handed to the renderer

-----------------------------------------------------------------------------
(* Generic helpers *)

Range(s) == {s[i] : i \in DOMAIN s}

RECURSIVE Flatten(_)
Flatten(ss) == IF ss = <<>> THEN <<>> ELSE Head(ss) \o Flatten(Tail(ss))

RECURSIVE SumSeq(_)
SumSeq(s) == IF s = <<>> THEN 0 ELSE Head(s) + SumSeq(Tail(s))

\* Python dict: keys in insertion order, and the value of each key.
EmptyDict == [keys |-> <<>>, val |-> [k \in {} |-> 0]]

DictHas(d, k) == k \in Range(d.keys)

DictSet(d, k, v) ==
    [keys |-> IF DictHas(d, k) THEN d.keys ELSE Append(d.keys, k),
     val  |-> [x \in (DOMAIN d.val) \cup {k} |-> IF x = k THEN v ELSE d.val[x]]]

\* Sequences over S of length 0..n
SeqsUpTo(S, n) == UNION {[1..k -> S] : k \in 0..n}

-----------------------------------------------------------------------------
(* Field conversions *)

\* int(s): the decimal strings of the model; any other string raises ValueError
IsInt(s) == s \in {"0", "1", "2", "3", "45", "60"}
IntOf(s) ==
    CASE s = "1" -> 1 [] s = "2" -> 2 [] s = "3" -> 3
      [] s = "45" -> 45 [] s = "60" -> 60 [] OTHER -> 0

\* pd.to_datetime(s, format='%b %d, %Y %H:%M:%S'): minutes since Jan 01, 2021;
\* a string of another format raises
IsPollTime(s) == s \in {"Jan 05, 2021 10:15:00", "Jan 05, 2021 10:16:30"}
PollTimeOf(s) ==
    CASE s = "Jan 05, 2021 10:15:00" -> 6375
      [] s = "Jan 05, 2021 10:16:30" -> 6376
      [] OTHER -> 0

\* s.replace('-', '') on a sequence of characters
StripDashes(s) == SelectSeq(s, LAMBDA c : c # "-")

\* polldata[3].split(',')[1].replace('-', '')
MeetingIdOf(f) == StripDashes(f.id)

-----------------------------------------------------------------------------
(* The row loop shared by read_poll_report and read_poll_report_counts *)

\* list(range(0, n, 2))
Range2(n) == IF n <= 0 THEN <<>> ELSE [j \in 1..((n + 1) \div 2) |-> 2 * (j - 1)]

\* Faulty variant: the final empty field is not discounted
NumQuestions_KeepsTrailing(line) == Len(line) - 4

\* len(line) - 5: number, name, email, date and the final empty field are skipped
NumQuestions(line) == Len(line) - 5

\* line[i] (0-based) raises IndexError past the end
HasIndex(line, i) == i >= 0 /\ i < Len(line)
At(line, i) == IF HasIndex(line, i) THEN line[i + 1] ELSE "<IndexError>"

\* The (q_text, a_text) pairs the inner loop visits, in order
LinePairs(line) ==
    LET qs == Range2(NumQuestions(line))
    IN  [j \in DOMAIN qs |->
            [q_text |-> At(line, 4 + qs[j]),
             a_text |-> At(line, 4 + qs[j] + 1),
             ok     |-> HasIndex(line, 4 + qs[j]) /\ HasIndex(line, 4 + qs[j] + 1)]]

LineIndexError(line) == \E j \in DOMAIN LinePairs(line) : ~LinePairs(line)[j].ok

-----------------------------------------------------------------------------
(* read_poll_report *)

\* The qdata dicts one row appends to `poll`
LineRecords(meeting_id, line) ==
    LET ps == LinePairs(line)
    IN  [j \in DOMAIN ps |->
            [meeting_id |-> meeting_id,
             row_no     |-> IntOf(At(line, 0)),
             name       |-> At(line, 1),
             email      |-> At(line, 2),
             datetime   |-> At(line, 3),
             question   |-> ps[j].q_text,
             answer     |-> ps[j].a_text]]

\* A row with at least one pair evaluates int(line[0]), which may raise
LineRaises(line) ==
    /\ LinePairs(line) # <<>>
    /\ LineIndexError(line) \/ ~IsInt(At(line, 0))

\* df.loc[:, 'datetime'] = pd.to_datetime(df.datetime, format=...)
FrameRaises(recs) == \E j \in DOMAIN recs : ~IsPollTime(recs[j].datetime)
ToFrame(recs) ==
    [j \in DOMAIN recs |-> [recs[j] EXCEPT !.datetime = PollTimeOf(recs[j].datetime)]]

-----------------------------------------------------------------------------
(* read_poll_report_counts *)

\* Faulty variant: N[q_text] is assigned 1 on every pair instead of being incremented
CountPair_NReset(st, q_text, a_text) ==
    LET inner  == IF DictHas(st.poll, q_text) THEN st.poll.val[q_text] ELSE EmptyDict
        inner2 == IF DictHas(inner, a_text)
                  THEN DictSet(inner, a_text, inner.val[a_text] + 1)
                  ELSE DictSet(inner, a_text, 1)
    IN  [poll |-> DictSet(st.poll, q_text, inner2), N |-> DictSet(st.N, q_text, 1)]

\* One pass of the inner loop body: poll[q][a] and N[q] are both bumped
CountPair(st, q_text, a_text) ==
    LET inner  == IF DictHas(st.poll, q_text) THEN st.poll.val[q_text] ELSE EmptyDict
        inner2 == IF DictHas(inner, a_text)
                  THEN DictSet(inner, a_text, inner.val[a_text] + 1)
                  ELSE DictSet(inner, a_text, 1)
        n2     == IF DictHas(st.N, q_text)
                  THEN DictSet(st.N, q_text, st.N.val[q_text] + 1)
                  ELSE DictSet(st.N, q_text, 1)
    IN  [poll |-> DictSet(st.poll, q_text, inner2), N |-> n2]

RECURSIVE CountPairs(_, _)
CountPairs(st, ps) ==
    IF ps = <<>> THEN st
    ELSE CountPairs(CountPair(st, Head(ps).q_text, Head(ps).a_text), Tail(ps))

\* Faulty variant: one global respondent count, shared by every question seen so far
CountLineOp_GlobalN(st, line) ==
    LET st2   == CountPairs(st, LinePairs(line))
        seen  == Range(st2.poll.keys)
        total == IF st.N.keys = <<>> THEN 1 ELSE st.N.val[st.N.keys[1]] + 1
    IN  [poll |-> st2.poll,
         N    |-> [keys |-> st2.N.keys, val |-> [q \in seen |-> total]]]

\* The whole body of `for line in csvdata`
CountLineOp(st, line) == CountPairs(st, LinePairs(line))

\* float(poll[q][a]) / float(N[q]) raises on a zero or missing N[q]
TableRaises(st) ==
    \E i \in DOMAIN st.poll.keys :
        LET q == st.poll.keys[i]
        IN  st.poll.val[q].keys # <<>> /\ (~DictHas(st.N, q) \/ st.N.val[q] = 0)

\* Faulty variant: the `responses` column is filled from poll[q][a] instead of N[q]
PollTable_ResponsesFromCount(meeting_id, st) ==
    Flatten([i \in DOMAIN st.poll.keys |->
        LET q  == st.poll.keys[i]
            as == st.poll.val[q]
        IN  [j \in DOMAIN as.keys |->
                [meeting_id |-> meeting_id,
                 question   |-> q,
                 answer     |-> as.keys[j],
                 count      |-> as.val[as.keys[j]],
                 prop       |-> [num |-> as.val[as.keys[j]], den |-> st.N.val[q]],
                 responses  |-> as.val[as.keys[j]]]]])

\* polltable: one row per question (insertion order) and answer (insertion order)
PollTable(meeting_id, st) ==
    Flatten([i \in DOMAIN st.poll.keys |->
        LET q  == st.poll.keys[i]
            as == st.poll.val[q]
        IN  [j \in DOMAIN as.keys |->
                [meeting_id |-> meeting_id,
                 question   |-> q,
                 answer     |-> as.keys[j],
                 count      |-> as.val[as.keys[j]],
                 prop       |-> [num |-> as.val[as.keys[j]], den |-> st.N.val[q]],
                 responses  |-> st.N.val[q]]]])

RECURSIVE CountLines(_, _)
CountLines(st, rows) ==
    IF rows = <<>> THEN st ELSE CountLines(CountLineOp(st, Head(rows)), Tail(rows))

EmptyCountState == [poll |-> EmptyDict, N |-> EmptyDict]

-----------------------------------------------------------------------------
(* The poll-report files of the model *)

Questions == {"Q1", "Q2"}

Q1Yes == <<"Q1", "Yes">>
Q1No  == <<"Q1", "No">>
Q2X   == <<"Q2", "X">>

\* The question/answer blocks a respondent row may carry: none, one question,
\* two questions, the same question twice, three pairs
PairBlocks ==
    {<<>>, <<Q1Yes>>, <<Q1No>>, <<Q2X>>, <<Q1Yes, Q2X>>, <<Q1No, Q2X>>,
     <<Q1Yes, Q1No>>, <<Q1Yes, Q2X, Q1No>>}

GoodFixed == <<"1", "Ann", "ann@example.org", "Jan 05, 2021 10:15:00">>
BadRowNo  == <<"n/a", "Bob", "bob@example.org", "Jan 05, 2021 10:16:30">>
BadTime   == <<"2", "Cy", "cy@example.org", "05.01.2021 10:16">>

\* [row_no, name, email, datetime, q1, a1, ..., trailing empty field]
MkRow(fixed, pairs) ==
    fixed \o Flatten([j \in DOMAIN pairs |-> <<pairs[j][1], pairs[j][2]>>]) \o <<"">>

DataRows ==
    {MkRow(GoodFixed, ps) : ps \in PairBlocks}
    \cup {MkRow(BadRowNo, <<>>), MkRow(BadRowNo, <<Q1No>>), MkRow(BadTime, <<Q2X>>),
          <<>>}                                  \* a blank line

RawId == <<"8", "1", "-", "2", "-", "3">>

PollFiles == {[id |-> RawId, rows |-> rs] : rs \in SeqsUpTo(DataRows, MaxRows)}

-----------------------------------------------------------------------------
(* Single-file readers as state machines *)

PollIdle ==
    /\ pcR = "loop" /\ ri = 0 /\ poll = <<>> /\ df = <<>>
    /\ pcC = "wait" /\ ci = 0 /\ cpoll = EmptyDict /\ N = EmptyDict /\ counts = <<>>

CorpusIdle ==
    /\ loader = "idle" /\ listing = <<>> /\ li = 0
    /\ data = [columns |-> <<>>, rows |-> <<>>] /\ loads = <<>>

PlotIdle ==
    /\ args = [polldata |-> <<>>, question |-> <<>>, prop |-> TRUE,
               answer_sort |-> [given |-> FALSE, order |-> <<>>]]
    /\ pcPlot = "select" /\ question = <<>> /\ a = <<>> /\ pivot = <<>>
    /\ colors = <<>> /\ calls = <<>> /\ err = [type |-> "none"]

InitPoll ==
    /\ file \in PollFiles
    /\ PollIdle
    /\ folder = {} /\ CorpusIdle
    /\ PlotIdle

\* read_poll_report: one iteration of `for line in csvdata`
ParseLine ==
    /\ pcR = "loop" /\ ri < Len(file.rows)
    /\ LET line == file.rows[ri + 1]
       IN  IF LineRaises(line)
           THEN pcR' = "raised" /\ UNCHANGED <<ri, poll>>
           ELSE /\ poll' = poll \o LineRecords(MeetingIdOf(file), line)
                /\ ri' = ri + 1
                /\ pcR' = "loop"
    /\ UNCHANGED <<file, df, pcC, ci, cpoll, N, counts>>
    /\ UNCHANGED <<corpusVars, plotVars>>

\* read_poll_report: the frame is built and its datetime column converted
ParseFrame ==
    /\ pcR = "loop" /\ ri = Len(file.rows)
    /\ IF FrameRaises(poll)
       THEN pcR' = "raised" /\ UNCHANGED df
       ELSE pcR' = "returned" /\ df' = ToFrame(poll)
    /\ UNCHANGED <<file, ri, poll, pcC, ci, cpoll, N, counts>>
    /\ UNCHANGED <<corpusVars, plotVars>>

\* read_poll_report_counts is called on the same file
CountCall ==
    /\ pcR \in {"returned", "raised"} /\ pcC = "wait"
    /\ pcC' = "loop"
    /\ UNCHANGED <<file, pcR, ri, poll, df, ci, cpoll, N, counts>>
    /\ UNCHANGED <<corpusVars, plotVars>>

\* read_poll_report_counts: one iteration of `for line in csvdata`
CountLine ==
    /\ pcC = "loop" /\ ci < Len(file.rows)
    /\ LET line == file.rows[ci + 1]
           st   == CountLineOp([poll |-> cpoll, N |-> N], line)
       IN  IF LineIndexError(line)
           THEN pcC' = "raised" /\ UNCHANGED <<ci, cpoll, N>>
           ELSE /\ cpoll' = st.poll /\ N' = st.N
                /\ ci' = ci + 1
                /\ pcC' = "loop"
    /\ UNCHANGED <<file, pcR, ri, poll, df, counts>>
    /\ UNCHANGED <<corpusVars, plotVars>>

\* read_poll_report_counts: the dict of counts becomes the returned frame
CountFrame ==
    /\ pcC = "loop" /\ ci = Len(file.rows)
    /\ LET st == [poll |-> cpoll, N |-> N]
       IN  IF TableRaises(st)
           THEN pcC' = "raised" /\ UNCHANGED counts
           ELSE pcC' = "returned" /\ counts' = PollTable(MeetingIdOf(file), st)
    /\ UNCHANGED <<file, pcR, ri, poll, df, ci, cpoll, N>>
    /\ UNCHANGED <<corpusVars, plotVars>>

NextPoll == ParseLine \/ ParseFrame \/ CountCall \/ CountLine \/ CountFrame

Spec == InitPoll /\ [][NextPoll]_vars

-----------------------------------------------------------------------------
(* Whole-file readers, as the corpus loaders call them *)

PollColumns == <<"meeting_id", "row_no", "name", "email", "datetime", "question", "answer">>
CountColumns == <<"meeting_id", "question", "answer", "count", "prop", "responses">>

RECURSIVE ParseRows(_, _)
ParseRows(meeting_id, rows) ==
    IF rows = <<>> THEN [raised |-> FALSE, recs |-> <<>>]
    ELSE IF LineRaises(Head(rows)) THEN [raised |-> TRUE, recs |-> <<>>]
    ELSE LET rest == ParseRows(meeting_id, Tail(rows))
         IN  [raised |-> rest.raised,
              recs   |-> LineRecords(meeting_id, Head(rows)) \o rest.recs]

Raised == [raised |-> TRUE, columns |-> <<>>, rows |-> <<>>]

read_poll_report(f) ==
    LET p == ParseRows(MeetingIdOf(f), f.rows)
    IN  IF p.raised \/ FrameRaises(p.recs) THEN Raised
        ELSE [raised |-> FALSE, columns |-> PollColumns, rows |-> ToFrame(p.recs)]

read_poll_report_counts(f) ==
    LET st == CountLines(EmptyCountState, f.rows)
    IN  IF (\E i \in DOMAIN f.rows : LineIndexError(f.rows[i])) \/ TableRaises(st)
        THEN Raised
        ELSE [raised |-> FALSE, columns |-> CountColumns,
              rows |-> PollTable(MeetingIdOf(f), st)]

\* pd.to_datetime(s, format='%b %d, %Y %I:%M %p'): minutes since Jan 01, 2021
IsPerfTime(s) == s \in {"Jan 05, 2021 10:00 AM", "Feb 02, 2021 10:00 AM"}
PerfTimeOf(s) ==
    CASE s = "Jan 05, 2021 10:00 AM" -> 4 * 1440 + 600
      [] s = "Feb 02, 2021 10:00 AM" -> 32 * 1440 + 600
      [] OTHER -> 0

\* datetime.strftime('%d.%m.')
DateStrOf(t) ==
    CASE t \div 1440 = 4 -> "05.01."
      [] t \div 1440 = 32 -> "02.02."
      [] OTHER -> "??.??."

\* float(s): percentages of the model, as fractions
IsFloat(s) == s \in {"50.0", "100.0"}
FloatOf(s) == CASE s = "50.0" -> [num |-> 50, den |-> 1]
                [] s = "100.0" -> [num |-> 100, den |-> 1]
                [] OTHER -> [num |-> 0, den |-> 1]

MetaColumns == <<"topic", "meeting_id", "datetime", "duration", "registered",
                 "attended", "attendance_rate", "questions">>

\* f.cells is prdata: the rows of the csv file, of which rows 3, 6 and 8 are read
read_performance_report(f) ==
    LET c == f.cells
    IN  IF \/ ~IsInt(c.duration) \/ ~IsInt(c.registered) \/ ~IsInt(c.attended)
           \/ ~IsFloat(c.rate) \/ ~IsInt(c.questions) \/ ~IsPerfTime(c.datetime)
        THEN Raised
        ELSE [raised  |-> FALSE,
              columns |-> Append(MetaColumns, "date_str"),
              rows    |-> << [topic           |-> c.topic,
                              meeting_id      |-> StripDashes(c.id),
                              datetime        |-> PerfTimeOf(c.datetime),
                              duration        |-> IntOf(c.duration),
                              registered      |-> IntOf(c.registered),
                              attended        |-> IntOf(c.attended),
                              attendance_rate |-> [num |-> FloatOf(c.rate).num,
                                                   den |-> FloatOf(c.rate).den * 100],
                              questions       |-> IntOf(c.questions),
                              date_str        |-> DateStrOf(PerfTimeOf(c.datetime))] >>]

-----------------------------------------------------------------------------
(* Frames: concatenation and sorting *)

\* Faulty variant: the frame read last replaces `data` instead of being appended
FrameAppend_Overwrite(d, other) == [columns |-> d.columns, rows |-> other.rows]

\* data.append(other, ignore_index=True): the columns of `data`, then the new
\* ones of `other`; the rows of `data`, then the rows of `other`
FrameAppend(d, other) ==
    [columns |-> d.columns \o SelectSeq(other.columns, LAMBDA c : c \notin Range(d.columns)),
     rows    |-> d.rows \o other.rows]

\* Character codes of the texts of the model, for lexical comparison
StrCode(s) ==
    CASE s = "Q1" -> <<81, 49>>
      [] s = "Q2" -> <<81, 50>>
      [] s = "Yes" -> <<89, 101, 115>>
      [] s = "No" -> <<78, 111>>
      [] s = "X" -> <<88>>
      [] s = "05.01." -> <<48, 53, 46, 48, 49, 46>>
      [] s = "02.02." -> <<48, 50, 46, 48, 50, 46>>
      [] OTHER -> <<>>

RECURSIVE LexLE(_, _)
LexLE(s, t) ==
    IF s = <<>> THEN TRUE
    ELSE IF t = <<>> THEN FALSE
    ELSE IF Head(s) # Head(t) THEN Head(s) < Head(t)
    ELSE LexLE(Tail(s), Tail(t))

StrLE(s, t) == LexLE(StrCode(s), StrCode(t))

\* Faulty variant: the performance corpus is ordered by the formatted date string
PerfKeyLE_ByDateStr(r1, r2) == StrLE(r1.date_str, r2.date_str)

\* sort_values('datetime')
PerfKeyLE(r1, r2) == r1.datetime <= r2.datetime

\* Faulty variant: the poll corpora are ordered by question only
PollKeyLE_QuestionOnly(r1, r2) == StrLE(r1.question, r2.question)

\* sort_values(['question', 'answer'])
PollKeyLE(r1, r2) ==
    \/ r1.question # r2.question /\ StrLE(r1.question, r2.question)
    \/ r1.question = r2.question /\ StrLE(r1.answer, r2.answer)

\* the ordering of the `by` columns of a sort_values call
KeyLE(by, r1, r2) == IF by = "datetime" THEN PerfKeyLE(r1, r2) ELSE PollKeyLE(r1, r2)

\* x goes behind every row that is not greater than it
RECURSIVE InsertBy(_, _, _)
InsertBy(x, sorted, by) ==
    IF sorted = <<>> THEN <<x>>
    ELSE IF KeyLE(by, Head(sorted), x)
         THEN <<Head(sorted)>> \o InsertBy(x, Tail(sorted), by)
         ELSE <<x>> \o sorted

\* sort_values(by).reset_index(drop=True): rows in ascending key order.  Rows
\* with equal keys keep the order they had, as under the stable multi-key sort
\* of sort_values(['question', 'answer']); the performance reports of the
\* model have distinct datetimes, so the order of ties under the single-key
\* sort does not arise.
RECURSIVE SortRows(_, _)
SortRows(rows, by) ==
    IF rows = <<>> THEN <<>>
    ELSE InsertBy(rows[Len(rows)], SortRows(SubSeq(rows, 1, Len(rows) - 1), by), by)

SortPerf(d) == [columns |-> d.columns, rows |-> SortRows(d.rows, "datetime")]
SortPoll(d) == [columns |-> d.columns, rows |-> SortRows(d.rows, "question, answer")]

-----------------------------------------------------------------------------
(* The directory of the model *)

PerfSuffix == "Performance Report.csv"
PollSuffix == "Poll Report.csv"

FileNames ==
    {[stem |-> st, suffix |-> PerfSuffix] : st \in {"w1 ", "w2 "}}
    \cup {[stem |-> st, suffix |-> PollSuffix] : st \in {"w1 ", "w2 ", "w3 "}}
    \cup {[stem |-> "notes", suffix |-> ".txt"]}

\* glob.glob('{folder}/*<suffix>'): the matching names, in any order
Glob(names, suffix) == {n \in names : n.suffix = suffix}
Listings(S) == {s \in [1..Cardinality(S) -> S] : \A i, j \in DOMAIN s : s[i] = s[j] => i = j}

Row(ps) == MkRow(GoodFixed, ps)

\* w1 and w2 are two sessions of one recurring meeting and share its id;
\* w3 has a row whose number field is not a number
PollContent(n) ==
    CASE n.stem = "w1 " -> [id |-> RawId, rows |-> <<Row(<<Q1Yes, Q2X>>), Row(<<Q1No>>)>>]
      [] n.stem = "w2 " -> [id |-> RawId, rows |-> <<Row(<<Q1Yes>>)>>]
      [] OTHER          -> [id |-> <<"9", "-", "4">>,
                            rows |-> <<MkRow(BadRowNo, <<Q1No, Q2X>>), Row(<<>>)>>]

PerfContent(n) ==
    CASE n.stem = "w1 " ->
           [cells |-> [topic |-> "Week 1", id |-> RawId, datetime |-> "Jan 05, 2021 10:00 AM",
                       duration |-> "60", registered |-> "2", attended |-> "1",
                       rate |-> "50.0", questions |-> "0"]]
      [] OTHER ->
           [cells |-> [topic |-> "Week 2", id |-> RawId, datetime |-> "Feb 02, 2021 10:00 AM",
                       duration |-> "45", registered |-> "3", attended |-> "3",
                       rate |-> "100.0", questions |-> "1"]]

-----------------------------------------------------------------------------
(* Corpus loaders as state machines *)

\* Faulty variant: the initial frame lacks the derived date_str column
PerfFrameColumns_NoDateStr == MetaColumns

\* the columns of the initial frame of read_all_performance_reports
PerfFrameColumns ==
    <<"topic", "meeting_id", "datetime", "duration", "registered", "attended",
      "attendance_rate", "questions", "date_str">>

InitCorpus ==
    /\ folder \in SUBSET FileNames
    /\ CorpusIdle
    /\ file = [id |-> RawId, rows |-> <<>>] /\ PollIdle
    /\ PlotIdle

Start(fn, columns, suffix) ==
    /\ loader = "idle" /\ Len(loads) < MaxLoads
    /\ loader' = fn
    /\ data' = [columns |-> columns, rows |-> <<>>]
    /\ listing' \in Listings(Glob(folder, suffix))
    /\ li' = 0
    /\ UNCHANGED <<folder, loads>>
    /\ UNCHANGED <<pollVars, plotVars>>

Step(fn, res) ==
    /\ loader = fn /\ li < Len(listing)
    /\ IF res.raised
       THEN /\ loads' = Append(loads, [fn |-> fn, listing |-> listing, raised |-> TRUE,
                                       table |-> [columns |-> <<>>, rows |-> <<>>]])
            /\ loader' = "idle"
            /\ UNCHANGED <<data, li>>
       ELSE /\ data' = FrameAppend(data, res)
            /\ li' = li + 1
            /\ UNCHANGED <<loader, loads>>
    /\ UNCHANGED <<folder, listing>>
    /\ UNCHANGED <<pollVars, plotVars>>

Finish(fn, sorted) ==
    /\ loader = fn /\ li = Len(listing)
    /\ loads' = Append(loads, [fn |-> fn, listing |-> listing, raised |-> FALSE,
                            table |-> sorted])
    /\ loader' = "idle"
    /\ UNCHANGED <<folder, listing, li, data>>
    /\ UNCHANGED <<pollVars, plotVars>>

\* read_all_performance_reports
PerfStart  == Start("perf", PerfFrameColumns, PerfSuffix)
PerfAppend == Step("perf", read_performance_report(PerfContent(listing[li + 1])))
PerfReturn == Finish("perf", SortPerf(data))

\* read_all_poll_reports
PollsStart  == Start("polls", PollColumns, PollSuffix)
PollsAppend == Step("polls", read_poll_report(PollContent(listing[li + 1])))
PollsReturn == Finish("polls", SortPoll(data))

\* read_all_poll_report_counts
CountsStart  == Start("counts", CountColumns, PollSuffix)
CountsAppend == Step("counts", read_poll_report_counts(PollContent(listing[li + 1])))
CountsReturn == Finish("counts", SortPoll(data))

NextCorpus ==
    \/ PerfStart \/ PerfAppend \/ PerfReturn
    \/ PollsStart \/ PollsAppend \/ PollsReturn
    \/ CountsStart \/ CountsAppend \/ CountsReturn

SpecCorpus == InitCorpus /\ [][NextCorpus]_vars

-----------------------------------------------------------------------------
(* plot_question_stacked_bokeh *)

TitleMax == 60      \* len(question) > 60
TitleCut == 61      \* question[0:61]

Ellipsis == <<46, 46, 46>>                      \* '...'
Text(n) == [i \in 1..n |-> 100 + i]             \* a text of n distinct characters
OtherQuestion == <<63>>                         \* '?'

\* s[0:n]
Slice(s, n) == SubSeq(s, 1, IF n < Len(s) THEN n ELSE Len(s))

\* if len(question) > 60: question = question[0:61] + '...'
ShortenTitle(q) == IF Len(q) > TitleMax THEN Slice(q, TitleCut) \o Ellipsis ELSE q

\* list(data.answer.unique()): the answers in order of first appearance
RECURSIVE Unique(_)
Unique(s) ==
    IF s = <<>> THEN <<>>
    ELSE LET u == Unique(SubSeq(s, 1, Len(s) - 1))
         IN  IF s[Len(s)] \in Range(u) THEN u ELSE Append(u, s[Len(s)])

\* polldata.loc[polldata.question == question, ['date_str', 'answer', value]]
Selected(polldata, q) == SelectSeq(polldata, LAMBDA r : r.question = q)

\* pivot_table(columns='answer', values=value, index=['date_str']), fillna(0):
\* one cell per date and observed answer; every (date, answer) of the tables of
\* the model occurs once, so the mean of a cell is its one value.  With prop
\* the value is prop * 100, else the count.
Pivot(sel, value) ==
    [c \in {r.date_str : r \in Range(sel)} \X {r.answer : r \in Range(sel)} |->
        LET hit == {i \in DOMAIN sel : sel[i].date_str = c[1] /\ sel[i].answer = c[2]}
        IN  IF hit = {} THEN [num |-> 0, den |-> 1]
            ELSE LET r == sel[CHOOSE i \in hit : TRUE]
                 IN  IF value = "prop" THEN [num |-> r.prop.num * 100, den |-> r.prop.den]
                     ELSE [num |-> r.count, den |-> 1]]

\* Set2[8]
Set2_8 == <<"#66c2a5", "#fc8d62", "#8da0cb", "#e78ac3", "#a6d854", "#ffd92f",
            "#e5c494", "#b3b3b3">>

\* Faulty variant: the test runs the other way round (every entry of answer_sort is
\* looked up among the observed answers)
MissingAnswers_Reversed(observed, order) ==
    SelectSeq(order, LAMBDA var : var \notin Range(observed))

\* for var in a: if var not in answer_sort -- the answers that trip the test
MissingAnswers(observed, order) ==
    SelectSeq(observed, LAMBDA var : var \notin Range(order))

\* The tables handed to the renderer: counts of one question over one or two
\* meeting dates, and a row of another question
PlotRow(d, q, ans, c, n) ==
    [date_str |-> d, question |-> q, answer |-> ans, count |-> c,
     prop |-> [num |-> c, den |-> n]]

PlotTables(q) ==
    { << PlotRow("05.01.", q, "A", 1, 2), PlotRow("05.01.", q, "B", 1, 2),
         PlotRow("05.01.", OtherQuestion, "C", 1, 1) >>,
      << PlotRow("05.01.", q, "B", 2, 3), PlotRow("05.01.", OtherQuestion, "C", 1, 1),
         PlotRow("05.01.", q, "A", 1, 3), PlotRow("02.02.", q, "B", 1, 1) >>,
      << PlotRow("05.01.", q, "A", 2, 2), PlotRow("02.02.", q, "A", 1, 1) >> }

AnswerSorts ==
    {[given |-> FALSE, order |-> <<>>]}
    \cup {[given |-> TRUE, order |-> o] :
            o \in {<<"A">>, <<"A", "B">>, <<"B", "A">>, <<"C", "B", "A">>}}

InitPlot ==
    /\ \E n \in 0..MaxQuestionLen :
          args \in [polldata : PlotTables(Text(n)), question : {Text(n)},
                    prop : BOOLEAN, answer_sort : AnswerSorts]
    /\ pcPlot = "select" /\ question = args.question /\ a = <<>> /\ pivot = <<>>
    /\ colors = <<>> /\ calls = <<>> /\ err = [type |-> "none"]
    /\ file = [id |-> RawId, rows |-> <<>>] /\ PollIdle
    /\ folder = {} /\ CorpusIdle

\* lines 313-327: select the question's rows, pivot, fill, pick the colors
SelectData ==
    /\ pcPlot = "select"
    /\ LET sel == Selected(args.polldata, question)
       IN  /\ a' = Unique([i \in DOMAIN sel |-> sel[i].answer])
           /\ pivot' = Pivot(sel, IF args.prop THEN "prop" ELSE "count")
           /\ colors' = Slice(Set2_8, Len(a'))
    /\ pcPlot' = "check"
    /\ UNCHANGED <<args, question, calls, err>>
    /\ UNCHANGED <<pollVars, corpusVars>>

\* lines 330-335: every observed answer must be in answer_sort
CheckAnswerSort ==
    /\ pcPlot = "check"
    /\ IF ~args.answer_sort.given
       THEN pcPlot' = "shorten" /\ UNCHANGED <<a, err>>
       ELSE IF MissingAnswers(a, args.answer_sort.order) # <<>>
            THEN /\ err' = [type |-> "ValueError", question |-> question, answers |-> a]
                 /\ pcPlot' = "raised"
                 /\ UNCHANGED a
            ELSE /\ a' = args.answer_sort.order
                 /\ pcPlot' = "shorten"
                 /\ UNCHANGED err
    /\ UNCHANGED <<args, question, pivot, colors, calls>>
    /\ UNCHANGED <<pollVars, corpusVars>>

\* lines 338-339
Shorten ==
    /\ pcPlot = "shorten"
    /\ question' = ShortenTitle(question)
    /\ pcPlot' = "figure"
    /\ UNCHANGED <<args, a, pivot, colors, calls, err>>
    /\ UNCHANGED <<pollVars, corpusVars>>

\* line 341: fig = figure(x_range=data['date_str'], title=question, ...)
Figure ==
    /\ pcPlot = "figure"
    /\ calls' = Append(calls, [fn |-> "figure", title |-> question])
    /\ pcPlot' = "vbar_stack"
    /\ UNCHANGED <<args, question, a, pivot, colors, err>>
    /\ UNCHANGED <<pollVars, corpusVars>>

\* line 342: bars = fig.vbar_stack(a, x='date_str', source=data, color=colors)
VbarStack ==
    /\ pcPlot = "vbar_stack"
    /\ calls' = Append(calls, [fn |-> "vbar_stack", stackers |-> a, color |-> colors])
    /\ pcPlot' = "legend"
    /\ UNCHANGED <<args, question, a, pivot, colors, err>>
    /\ UNCHANGED <<pollVars, corpusVars>>

\* lines 345-353: the legend is built and laid out, the figure is returned.
\* The answers of the model are shorter than the 35 characters past which a
\* legend label is cut.
LegendLayout ==
    /\ pcPlot = "legend"
    /\ calls' = calls \o << [fn |-> "Legend", items |-> a], [fn |-> "add_layout"] >>
    /\ pcPlot' = "returned"
    /\ UNCHANGED <<args, question, a, pivot, colors, err>>
    /\ UNCHANGED <<pollVars, corpusVars>>

NextPlot == SelectData \/ CheckAnswerSort \/ Shorten \/ Figure \/ VbarStack \/ LegendLayout

SpecPlot == InitPlot /\ [][NextPlot]_vars

-----------------------------------------------------------------------------
(* The layout of a data row, read off the file independently of the loops *)

\* number of question/answer pairs of a row [4 fixed, pairs, trailing field]
RowN(row) == IF Len(row) < 5 THEN 0 ELSE (Len(row) - 5) \div 2
RowQuestion(row, k) == row[3 + 2 * k]
RowAnswer(row, k) == row[4 + 2 * k]
RowHasQuestion(row, q) == \E k \in 1..RowN(row) : RowQuestion(row, k) = q

\* (row, pair) positions of the first n rows of the file
PairPositions(n) == {<<i, k>> \in (1..n) \X (1..4) : k <= RowN(file.rows[i])}
PairsWithQuestion(n, q) ==
    {p \in PairPositions(n) : RowQuestion(file.rows[p[1]], p[2]) = q}
RowsWithQuestion(n, q) == {i \in 1..n : RowHasQuestion(file.rows[i], q)}
NoRowRepeatsAQuestion ==
    \A i \in DOMAIN file.rows : \A k1, k2 \in 1..RowN(file.rows[i]) :
        RowQuestion(file.rows[i], k1) = RowQuestion(file.rows[i], k2) => k1 = k2

\* exact sum of fractions
FracAdd(f, g) == [num |-> f.num * g.den + g.num * f.den, den |-> f.den * g.den]
RECURSIVE FracSum(_)
FracSum(fs) == IF fs = <<>> THEN [num |-> 0, den |-> 1]
               ELSE FracAdd(Head(fs), FracSum(Tail(fs)))
FracIsOne(f) == f.den # 0 /\ f.num = f.den

RowsOfQuestion(table, q) == SelectSeq(table, LAMBDA r : r.question = q)
Column(table, c) == [i \in DOMAIN table |-> table[i][c]]

-----------------------------------------------------------------------------
(* C1: in the table read_poll_report_counts returns, for every question that *)
(* appears, the counts of its answer rows add up to `responses`, `responses` *)
(* is at least 1 (no division by zero is ever raised), and the `prop` values *)
(* of the question add up to 1.                                              *)
C1_CountsSumToResponses ==
    /\ pcC # "raised"
    /\ pcC = "returned" =>
         \A i \in DOMAIN counts :
            LET rs == RowsOfQuestion(counts, counts[i].question)
            IN  /\ SumSeq(Column(rs, "count")) = counts[i].responses
                /\ counts[i].responses >= 1
                /\ counts[i].prop.den >= 1
                /\ FracIsOne(FracSum(Column(rs, "prop")))

\* a file whose rows cover different subsets of questions has been aggregated
C1_Witness ==
    /\ pcC = "returned"
    /\ \E i, j \in DOMAIN file.rows :
          /\ RowHasQuestion(file.rows[i], "Q1") /\ RowHasQuestion(file.rows[i], "Q2")
          /\ RowHasQuestion(file.rows[j], "Q1") /\ ~RowHasQuestion(file.rows[j], "Q2")
    /\ \E i, j \in DOMAIN counts :
          counts[i].question = counts[j].question /\ counts[i].answer # counts[j].answer

-----------------------------------------------------------------------------
-----------------------------------------------------------------------------
(* The records C4 expects of a well-formed row *)
WellFormedRow(row) ==
    /\ Len(row) >= 5 /\ Len(row) = 5 + 2 * RowN(row) /\ row[Len(row)] = ""
    /\ RowN(row) = 0 \/ (IsInt(row[1]) /\ IsPollTime(row[4]))

ExpectedRecords(row) ==
    [k \in 1..RowN(row) |->
        [meeting_id |-> <<"8", "1", "2", "3">>,
         row_no     |-> IntOf(row[1]),
         name       |-> row[2],
         email      |-> row[3],
         datetime   |-> row[4],
         question   |-> RowQuestion(row, k),
         answer     |-> RowAnswer(row, k)]]

ExpectedPoll(n) == Flatten([i \in 1..n |-> ExpectedRecords(file.rows[i])])

AllWellFormed(n) == \A i \in 1..n : WellFormedRow(file.rows[i])

(* C4: a data row of 4 fixed fields, n pairs and one trailing empty field    *)
(* yields exactly n records, in pair order, each with the row's row_no,      *)
(* name, email and datetime and the pair's question and answer; with n = 0   *)
(* it yields no record and no error.                                         *)
C4_RowYieldsNRecords ==
    /\ AllWellFormed(ri) =>
         /\ poll = ExpectedPoll(ri)
         /\ Len(poll) = SumSeq([i \in 1..ri |-> RowN(file.rows[i])])
    /\ AllWellFormed(Len(file.rows)) =>
         /\ pcR # "raised"
         /\ pcR = "returned" =>
              /\ Len(df) = Len(ExpectedPoll(Len(file.rows)))
              /\ \A j \in DOMAIN df :
                    LET e == ExpectedPoll(Len(file.rows))[j]
                    IN  df[j] = [e EXCEPT !.datetime = PollTimeOf(e.datetime)]

\* rows with zero, two and three pairs have been parsed
C4_Witness ==
    /\ pcR = "returned" /\ AllWellFormed(Len(file.rows))
    /\ \E i, j, k \in DOMAIN file.rows :
          /\ RowN(file.rows[i]) = 0 /\ Len(file.rows[i]) = 5
          /\ RowN(file.rows[j]) = 2
          /\ RowN(file.rows[k]) = 3
    /\ Len(df) = 5

-----------------------------------------------------------------------------
(* A second pass over the frame read_poll_report returned *)
RecordsWith(q) == {j \in DOMAIN df : df[j].question = q}
RecordsWithQA(q, ans) == {j \in DOMAIN df : df[j].question = q /\ df[j].answer = ans}

(* C9: when read_poll_report parses the file without error,                  *)
(* read_poll_report_counts on the same file returns exactly one row per      *)
(* distinct (question, answer) among the parsed records, whose `count` is    *)
(* the number of records with that question and answer and whose `responses` *)
(* is the number of records with that question.                              *)
C9_OnePassMatchesSecondPass ==
    pcR = "returned" =>
        /\ pcC # "raised"
        /\ pcC = "returned" =>
             /\ {<<counts[i].question, counts[i].answer>> : i \in DOMAIN counts}
                  = {<<df[j].question, df[j].answer>> : j \in DOMAIN df}
             /\ \A i1, i2 \in DOMAIN counts :
                   (counts[i1].question = counts[i2].question
                      /\ counts[i1].answer = counts[i2].answer) => i1 = i2
             /\ \A i \in DOMAIN counts :
                   /\ counts[i].count =
                        Cardinality(RecordsWithQA(counts[i].question, counts[i].answer))
                   /\ counts[i].responses = Cardinality(RecordsWith(counts[i].question))
                   /\ counts[i].meeting_id = StripDashes(file.id)

\* both readers returned on a file with a repeated (question, answer)
C9_Witness ==
    /\ pcR = "returned" /\ pcC = "returned"
    /\ \E i \in DOMAIN counts : counts[i].count = 2 /\ counts[i].responses = 3
    /\ Len(counts) = 3

-----------------------------------------------------------------------------
(* The corpus of the directory, read file by file *)

FilesOf(fn) == Glob(folder, IF fn = "perf" THEN PerfSuffix ELSE PollSuffix)

PerFile(fn, n) ==
    CASE fn = "perf"  -> read_performance_report(PerfContent(n))
      [] fn = "polls" -> read_poll_report(PollContent(n))
      [] OTHER        -> read_poll_report_counts(PollContent(n))

SomeListing(fn) == CHOOSE s \in Listings(FilesOf(fn)) : TRUE
AllFileRows(fn) == Flatten([i \in DOMAIN SomeListing(fn) |-> PerFile(fn, SomeListing(fn)[i]).rows])

CountIn(rows, r) == Cardinality({i \in DOMAIN rows : rows[i] = r})
SameRows(rows1, rows2) ==
    \A r \in Range(rows1) \cup Range(rows2) : CountIn(rows1, r) = CountIn(rows2, r)

\* ascending order of the sort key, stated on the rows themselves
KeyOf(fn, r) == IF fn = "perf" THEN <<r.datetime>> ELSE <<r.question, r.answer>>
Ascending(fn, rows) ==
    \A i, j \in DOMAIN rows : i < j =>
        IF fn = "perf" THEN rows[i].datetime <= rows[j].datetime
        ELSE \/ rows[i].question # rows[j].question
                  /\ LexLE(StrCode(rows[i].question), StrCode(rows[j].question))
             \/ rows[i].question = rows[j].question
                  /\ LexLE(StrCode(rows[i].answer), StrCode(rows[j].answer))

NoCrossFileTies(fn) ==
    \A n1, n2 \in FilesOf(fn) : n1 # n2 =>
        \A r1 \in Range(PerFile(fn, n1).rows), r2 \in Range(PerFile(fn, n2).rows) :
            KeyOf(fn, r1) # KeyOf(fn, r2)

Returned(i) == i \in DOMAIN loads /\ ~loads[i].raised

\* The call that has just finished: every entry of `loads` is the last one in
\* the state its call returns to, so a property of Latest in all reachable
\* states is a property of every finished call.
JustFinished == loader = "idle" /\ loads # <<>>
Latest == loads[Len(loads)]

-----------------------------------------------------------------------------
(* The rows of one (meeting_id, question) and the files they come from *)
GroupOf(rows, r) ==
    SelectSeq(rows, LAMBDA x : x.meeting_id = r.meeting_id /\ x.question = r.question)

Contributors(r) ==
    {n \in FilesOf("counts") :
        /\ StripDashes(PollContent(n).id) = r.meeting_id
        /\ \E i \in DOMAIN PollContent(n).rows : RowHasQuestion(PollContent(n).rows[i], r.question)}

ResponsesIn(n, q) ==
    LET rs == RowsOfQuestion(read_poll_report_counts(PollContent(n)).rows, q)
    IN  IF rs = <<>> THEN 0 ELSE rs[1].responses

(* C2 as stated: in the table read_all_poll_report_counts returns, for every *)
(* (meeting_id, question) the counts of the rows with that meeting_id and    *)
(* question add up to their `responses` value and their `prop` values add up *)
(* to 1, also when several files carry the same meeting id.                  *)
C2_CombinedCountsSumToResponses ==
    (JustFinished /\ ~Latest.raised /\ Latest.fn = "counts") =>
        \A j \in DOMAIN Latest.table.rows :
            LET r == Latest.table.rows[j]
                g == GroupOf(Latest.table.rows, r)
            IN  /\ SumSeq(Column(g, "count")) = r.responses
                /\ FracIsOne(FracSum(Column(g, "prop")))

(* C2 amended: the rows of each file stay unmerged.  For every (meeting_id,  *)
(* question) found in exactly one file the counts add up to `responses` and  *)
(* the `prop` values to 1; when n files with that meeting id hold the        *)
(* question, the counts of the group add up to the sum of the n files'       *)
(* `responses` values and the `prop` values add up to n.                     *)
C2_CombinedCountsPerFile ==
    (JustFinished /\ ~Latest.raised /\ Latest.fn = "counts") =>
        \A j \in DOMAIN Latest.table.rows :
            LET r  == Latest.table.rows[j]
                g  == GroupOf(Latest.table.rows, r)
                cs == Contributors(r)
                ls == CHOOSE s \in Listings(cs) : TRUE
                fs == FracSum(Column(g, "prop"))
            IN  /\ cs # {}
                /\ SumSeq(Column(g, "count"))
                     = SumSeq([x \in DOMAIN ls |-> ResponsesIn(ls[x], r.question)])
                /\ fs.den # 0 /\ fs.num = Cardinality(cs) * fs.den
                /\ Cardinality(cs) = 1 =>
                     /\ SumSeq(Column(g, "count")) = r.responses
                     /\ FracIsOne(fs)

\* a corpus with two reports of one recurring meeting and a third meeting
C2_Witness ==
    \E i \in DOMAIN loads :
        /\ Returned(i) /\ loads[i].fn = "counts"
        /\ Cardinality(FilesOf("counts")) = 3
        /\ \E j1, j2 \in DOMAIN loads[i].table.rows :
              /\ Cardinality(Contributors(loads[i].table.rows[j1])) = 1
              /\ Cardinality(Contributors(loads[i].table.rows[j2])) = 2

-----------------------------------------------------------------------------
(* C5 as stated: two loads of the same directory by the same loader return   *)
(* identical tables, the same rows in the same order, whatever order the     *)
(* directory listing had on each load.                                       *)
C5_LoadsIdentical ==
    JustFinished =>
        \A i \in DOMAIN loads :
            loads[i].fn = Latest.fn =>
                /\ loads[i].raised = Latest.raised
                /\ loads[i].table = Latest.table

(* C5 amended: two loads of the same directory by the same loader both       *)
(* raise or both return; the returned tables have the same columns and the   *)
(* same rows, each in ascending key order, and they are identical whenever   *)
(* no two rows of different files tie on the sort key.                       *)
C5_LoadsSameRows ==
    JustFinished =>
        \A i \in DOMAIN loads :
            loads[i].fn = Latest.fn =>
                /\ loads[i].raised = Latest.raised
                /\ loads[i].table.columns = Latest.table.columns
                /\ SameRows(loads[i].table.rows, Latest.table.rows)
                /\ Ascending(Latest.fn, Latest.table.rows)
                /\ (loads[i].table # Latest.table) => ~NoCrossFileTies(Latest.fn)

\* the same loader ran twice over listings in different orders, without ties
C5_Witness ==
    /\ Len(loads) = 2 /\ Returned(1) /\ Returned(2)
    /\ loads[1].fn = "counts" /\ loads[2].fn = "counts"
    /\ loads[1].listing # loads[2].listing
    /\ NoCrossFileTies("counts")
    /\ Len(loads[1].table.rows) = 3
    /\ loads[1].table = loads[2].table

-----------------------------------------------------------------------------
(* C6: the table a corpus loader returns is in ascending order of its sort   *)
(* key (datetime for performance reports, lexical (question, answer) for the *)
(* poll corpora) and holds exactly the rows of the per-file results, none    *)
(* lost and none duplicated; the performance corpus has one row per report.  *)
C6_SortedAndComplete ==
    (JustFinished /\ ~Latest.raised) =>
        /\ Ascending(Latest.fn, Latest.table.rows)
        /\ SameRows(Latest.table.rows, AllFileRows(Latest.fn))
        /\ Len(Latest.table.rows) = Len(AllFileRows(Latest.fn))
        /\ Latest.fn = "perf" =>
             Len(Latest.table.rows) = Cardinality(FilesOf("perf"))

\* two performance reports listed out of date order, and a poll corpus
C6_Witness ==
    /\ Len(loads) = 2 /\ Returned(1) /\ Returned(2)
    /\ loads[1].fn = "perf" /\ Len(loads[1].table.rows) = 2
    /\ PerfContent(loads[1].listing[1]).cells.datetime = "Feb 02, 2021 10:00 AM"
    /\ loads[2].fn = "counts" /\ Len(loads[2].table.rows) = 6

-----------------------------------------------------------------------------
(* The column schema of each corpus loader *)
SchemaOf(fn) ==
    CASE fn = "perf" ->
           <<"topic", "meeting_id", "datetime", "duration", "registered", "attended",
             "attendance_rate", "questions", "date_str">>
      [] fn = "polls" ->
           <<"meeting_id", "row_no", "name", "email", "datetime", "question", "answer">>
      [] OTHER ->
           <<"meeting_id", "question", "answer", "count", "prop", "responses">>

(* C8: when no file of the directory matches the naming convention, each     *)
(* corpus loader returns, without raising, a table of zero rows with its     *)
(* full column schema; for read_all_performance_reports the nine columns     *)
(* topic .. date_str in that order.                                          *)
C8_EmptyCorpus ==
    (JustFinished /\ FilesOf(Latest.fn) = {}) =>
        /\ ~Latest.raised
        /\ Latest.table.rows = <<>>
        /\ Latest.table.columns = SchemaOf(Latest.fn)

\* a directory holding only a file that does not match was loaded
C8_Witness ==
    /\ folder = {[stem |-> "notes", suffix |-> ".txt"]}
    /\ Len(loads) = 2
    /\ loads[1].fn = "perf" /\ loads[1].table.rows = <<>>
    /\ loads[2].fn = "counts" /\ loads[2].table.rows = <<>>

-----------------------------------------------------------------------------
(* The answers the data holds for the plotted question *)
ObservedAnswers ==
    {args.polldata[i].answer :
        i \in {j \in DOMAIN args.polldata : args.polldata[j].question = args.question}}

Omits ==
    /\ args.answer_sort.given
    /\ \E x \in ObservedAnswers : x \notin Range(args.answer_sort.order)

(* C7: plot_question_stacked_bokeh called with an answer_sort that omits an  *)
(* answer present in the data of the question raises a ValueError naming the *)
(* question and the observed answers, before a figure is created or any      *)
(* rendering call is made; with every observed answer covered (or no         *)
(* answer_sort) it raises no such error.                                     *)
C7_OmittedAnswerRaisesFirst ==
    /\ Omits =>
         /\ calls = <<>>
         /\ pcPlot \in {"select", "check", "raised"}
         /\ pcPlot = "raised" =>
              /\ err.type = "ValueError"
              /\ err.question = args.question
              /\ Range(err.answers) = ObservedAnswers
              /\ Len(err.answers) = Cardinality(ObservedAnswers)
    /\ ~Omits => pcPlot # "raised" /\ err.type = "none"

\* answer_sort = ['A'] while the question's answers are A and B
C7_Witness ==
    /\ pcPlot = "raised"
    /\ args.answer_sort.order = <<"A">>
    /\ ObservedAnswers = {"A", "B"}
    /\ Len(args.question) > 0

-----------------------------------------------------------------------------
(* C10: the title handed to the figure is at most 60 characters long for     *)
(* every question text; a question of at most 60 characters is shown         *)
(* unchanged, a longer one is shortened to at most 60 characters.            *)
C10_TitleAtMost60 ==
    \A i \in DOMAIN calls : calls[i].fn = "figure" =>
        /\ Len(calls[i].title) <= 60
        /\ Len(args.question) <= 60 => calls[i].title = args.question

=============================================================================
